---- MODULE Spec2Model ----
(***************************************************************************)
(* Model of tokant: the ant-colony vocabulary trainer (src/main.rs and its *)
(* library draft src/algorithms/ant_colony.rs) and the greedy tokenizer    *)
(* (src/bin/tokenize.rs).                                                  *)
(*                                                                         *)
(* Text is a sequence of UTF-8 bytes; a token is a byte slice of a text.   *)
(* The pheromone store is a function from tokens to strengths.  An f64     *)
(* strength x is held in fixed point as the integer nearest to x * SCALE,  *)
(* and every arithmetic result is rounded to the nearest such integer, as  *)
(* f64 rounds to the nearest double.  Candidate weights are held in units  *)
(* of 0.0001, the floor the traversal applies to ln(tau).                  *)
(***************************************************************************)
EXTENDS Integers, Sequences, FiniteSets, TLC

VARIABLES
    variant,    \* which source file's AntColony runs: "main" or "colony"
    lines,      \* main: the corpus, a sequence of segments
    store,      \* AntColony.pheromones: token -> strength
    locks,      \* DashMap shard write locks: shard -> holding deposit task, 0 when free
    gen,        \* main: the generation counter of the training loop
    mpc,        \* main: position of the main thread
    trav,       \* per segment: the traversal task (pc, cursor, tokens)
    results,    \* main: the collected (path, steps) of each segment
    dep,        \* per path: the deposit task (pc, idx, current_val)
    hist,       \* history: store at the start of the deposit phase, selections completed,
                \* traversals and deposits returned per segment
    op,         \* sequential use of the colony: the last call, the store before it,
                \* and (history) the entries that selections have removed
    tk,         \* the greedy tokenizer: vocabulary, input and loop state
    file        \* tokens.txt: its bytes, and the loops that write and load it

vars == <<variant, lines, store, locks, gen, mpc, trav, results, dep, hist, op, tk, file>>

-----------------------------------------------------------------------------
(* Bounds of the model *)

\* fixed-point units per 1.0 of strength
SCALE == 10
\* number of DashMap shards
NumShards == 2

-----------------------------------------------------------------------------
(* Program constants *)

Q_main == 1
BETA_main == 2
Q_colony == 3
BETA_colony == 4
INITIAL_PHEROMONE == 1
MAX_TOKEN_LEN == 10
MAX_SCORE == 100000000
iterations == 20

Variants == {"main", "colony"}

Q(v) == IF v = "main" THEN Q_main ELSE Q_colony
BETA(v) == IF v = "main" THEN BETA_main ELSE BETA_colony

\* keep_ratio as a fraction <<numerator, denominator>>: 0.20 and 0.50
keep_ratio(v) == IF v = "main" THEN <<20, 100>> ELSE <<50, 100>>

\* ant_colony.rs multiplies every survivor by 0.8; main.rs does not
Decays(v) == v = "colony"

-----------------------------------------------------------------------------
(* Arithmetic *)

\* the element of a set of one element: the set is a value computed once, where
\* a definition of LET is computed again wherever it is used
Only(S) == CHOOSE x \in S : TRUE

Min(a, b) == IF a < b THEN a ELSE b
Max(a, b) == IF a > b THEN a ELSE b

RECURSIVE Pow(_, _)
\* powf on a non-negative integer base and exponent
Pow(b, e) == IF e = 0 THEN 1 ELSE b * Pow(b, e - 1)

\* the strength x.0 in fixed-point units
Fix(x) == x * SCALE

\* r * x / MAX_SCORE rounded to the nearest integer (x in any unit)
MulDivScore(r, x) ==
    r * (x \div MAX_SCORE) + (2 * r * (x % MAX_SCORE) + MAX_SCORE) \div (2 * MAX_SCORE)

\* v * 0.8 rounded to the nearest unit
TimesDecay(v) == 8 * (v \div 10) + (8 * (v % 10) + 5) \div 10

RECURSIVE Log2Floor(_, _)
\* the largest k with base * 2^k <= n, for n >= base
Log2Floor(n, base) == IF base > n \div 2 THEN 0 ELSE 1 + Log2Floor(n, 2 * base)

\* ln of a strength n >= SCALE units, in units of 0.0001:
\* k * ln 2 for the power of two below it, interpolated up to the next one
LnPos(n) ==
    Only({LET x == n - base
              frac == IF x < 300000 THEN (6931 * x) \div base ELSE x \div (base \div 6931)
          IN  6931 * k + frac :
            k \in {Log2Floor(n, SCALE)}, base \in {SCALE * Pow(2, Log2Floor(n, SCALE))}})

\* f64::ln of a strength, in units of 0.0001 (negative below 1.0, -inf at 0)
Ln(n) ==
    IF n >= SCALE THEN LnPos(n)
    ELSE IF n > 0 THEN 0 - LnPos((SCALE * SCALE) \div n)
    ELSE 0 - 100000000

-----------------------------------------------------------------------------
(* UTF-8 text *)

\* char::len_utf8 of the character whose first byte is b
len_utf8(b) ==
    IF b < 128 THEN 1
    ELSE IF b < 224 THEN 2
    ELSE IF b < 240 THEN 3
    ELSE 4

RECURSIVE CharIndicesFrom(_, _)
\* str::char_indices from byte offset off: <<byte_offset, len_utf8>> per character
CharIndicesFrom(s, off) ==
    IF off >= Len(s) THEN <<>>
    ELSE Only({<<<<off, w>>>> \o Only({CharIndicesFrom(s, next) : next \in {off + w}}) :
                  w \in {len_utf8(s[off + 1])}})

char_indices(s) == CharIndicesFrom(s, 0)

\* str::chars().count()
CharCount(s) == Len(char_indices(s))

\* str::is_char_boundary: slicing a str at any other offset panics
is_char_boundary(s, k) ==
    k = 0 \/ k = Len(s) \/ (k < Len(s) /\ s[k + 1] \notin 128..191)

\* the byte slice &s[from..to] (0-based, to exclusive)
Slice(s, from, to) == SubSeq(s, from + 1, to)

RECURSIVE Concat(_)
\* the concatenation of a sequence of tokens
Concat(toks) == IF toks = <<>> THEN <<>> ELSE Head(toks) \o Concat(Tail(toks))

\* variant: every element is taken
TakeAll(s, n) == s

\* Iterator::take
Take(s, n) == SubSeq(s, 1, Min(n, Len(s)))

-----------------------------------------------------------------------------
(* AntColony: reading the store *)

\* DashMap::new()
EmptyStore == [t \in {} |-> 0]

\* get_pheromone: the stored strength, INITIAL_PHEROMONE when the token is absent
get_pheromone(st, tok) == IF tok \in DOMAIN st THEN st[tok] ELSE Fix(INITIAL_PHEROMONE)

\* variant: a read through entry().or_insert, which inserts the default
GetEffectInsert(st, tok) ==
    IF tok \in DOMAIN st THEN st ELSE (tok :> Fix(INITIAL_PHEROMONE)) @@ st

\* the store after get_pheromone(tok): DashMap::get only reads
GetEffect(st, tok) == st

\* get_heuristic: (token.len() as f64).powf(BETA), on the byte length
get_heuristic(tok, v) == Pow(Len(tok), BETA(v))

\* prob = tau.ln().max(0.0001) * eta, in units of 0.0001
Prob(st, tok, v) == Max(Ln(get_pheromone(st, tok)), 1) * get_heuristic(tok, v)

\* the candidate loop of traverse: one (token_slice, prob) per character of
\* remaining, for the first MAX_TOKEN_LEN characters
Candidates(st, remaining, v) ==
    Only({[k \in 1..Len(idx) |->
            LET end == idx[k][1] + idx[k][2]
                token_slice == Slice(remaining, 0, end)
            IN  [tok |-> token_slice, prob |-> Prob(st, token_slice, v)]] :
          idx \in {Take(char_indices(remaining), MAX_TOKEN_LEN)}})

RECURSIVE SumProb(_, _)
\* the sum of the first k candidate weights
SumProb(cands, k) == IF k = 0 THEN 0 ELSE SumProb(cands, k - 1) + cands[k].prob

RECURSIVE StoreAfterReads(_, _, _)
\* the store after get_pheromone was called on the first k candidates
StoreAfterReads(st, cands, k) ==
    IF k = 0 THEN st ELSE GetEffect(StoreAfterReads(st, cands, k - 1), cands[k].tok)

RECURSIVE WalkFromStrict(_, _, _, _)
\* variant: the walk stops where current_sum > threshold
WalkFromStrict(cands, k, current_sum, threshold) ==
    IF k > Len(cands) THEN cands[1].tok
    ELSE IF current_sum + cands[k].prob > threshold THEN cands[k].tok
    ELSE WalkFromStrict(cands, k + 1, current_sum + cands[k].prob, threshold)

RECURSIVE WalkFrom(_, _, _, _)
\* the roulette walk: the first candidate at which current_sum >= threshold;
\* candidates[0] when the walk ends without one
WalkFrom(cands, k, current_sum, threshold) ==
    IF k > Len(cands) THEN cands[1].tok
    ELSE IF current_sum + cands[k].prob >= threshold THEN cands[k].tok
    ELSE WalkFrom(cands, k + 1, current_sum + cands[k].prob, threshold)

\* the values rng.gen::<f64>() * total_prob is drawn from: [0, total_prob),
\* one representative per outcome of the walk and per boundary between outcomes
Thresholds(cands) ==
    LET n == Len(cands)
        total == SumProb(cands, n)
    IN  {d \in {0} \cup {SumProb(cands, k) : k \in 1..n}
                   \cup {SumProb(cands, k) + 1 : k \in 0..n} : d < total}

\* the token one loop iteration of traverse selects for the draw d
SelectedToken(cands, d) ==
    IF SumProb(cands, Len(cands)) > 0 THEN WalkFrom(cands, 1, 0, d) ELSE cands[1].tok

\* variant: the cursor advanced by one byte
AdvanceByOne(cursor, tok) == cursor + 1

\* cursor += selected_token.len()
Advance(cursor, tok) == cursor + Len(tok)

-----------------------------------------------------------------------------
(* AntColony: deposit *)

\* the guard `if len > 1` on token.len(), the byte length
Reinforced(tok) == Len(tok) > 1

\* reward = ((len - 1) as f64).powf(Q)
reward(tok, v) == Pow(Len(tok) - 1, Q(v))

\* variant: a missing entry is inserted at 0.0
OrInsertZero(st, tok) ==
    IF tok \in DOMAIN st THEN st ELSE (tok :> 0) @@ st

\* entry(token).or_insert(INITIAL_PHEROMONE)
or_insert(st, tok) ==
    IF tok \in DOMAIN st THEN st ELSE (tok :> Fix(INITIAL_PHEROMONE)) @@ st

\* variant: the reward without the logistic factor
DeltaUncapped(tok, current_val, v) == reward(tok, v) * SCALE

\* delta = reward * (1.0 - current_val / MAX_SCORE), in units
delta(tok, current_val, v) ==
    reward(tok, v) * SCALE - MulDivScore(reward(tok, v), current_val)

\* if delta > 0.0 { *entry += delta; }
AddDelta(st, tok, d) == IF d > 0 THEN [st EXCEPT ![tok] = @ + d] ELSE st

\* one iteration of the loop of deposit, run without interruption
DepositToken(st, tok, v) ==
    IF Reinforced(tok)
    THEN LET s1 == or_insert(st, tok)
         IN  AddDelta(s1, tok, delta(tok, s1[tok], v))
    ELSE st

RECURSIVE deposit(_, _, _)
\* deposit(path, _steps) run without interruption
deposit(st, path, v) ==
    IF path = <<>> THEN st ELSE deposit(DepositToken(st, Head(path), v), Tail(path), v)

-----------------------------------------------------------------------------
(* AntColony: natural_selection *)

RECURSIVE SortDesc(_, _)
\* the strengths of the tokens S, sorted descending
SortDesc(st, S) ==
    IF S = {} THEN <<>>
    ELSE LET t == CHOOSE x \in S : \A u \in S : st[x] >= st[u]
         IN  <<st[t]>> \o SortDesc(st, S \ {t})

\* variant: the cut index without .max(1)
CutIndexNoFloor(n, v) == (n * keep_ratio(v)[1]) \div keep_ratio(v)[2]

\* ((active_tokens as f64 * keep_ratio) as usize).max(1)
cut_index(n, v) == Max((n * keep_ratio(v)[1]) \div keep_ratio(v)[2], 1)

\* scores[cut_index.min(active_tokens - 1)], of a non-empty store
threshold(st, v) ==
    LET active_tokens == Cardinality(DOMAIN st)
        scores == SortDesc(st, DOMAIN st)
    IN  scores[Min(cut_index(active_tokens, v), active_tokens - 1) + 1]

\* variant: a retain that removes nothing
RetainsAll(val, th) == TRUE

\* the predicate of retain: *v >= threshold
Retains(val, th) == val >= th

\* variant: a survivor keeps its strength
SurvivorUnchanged(val, v) == val

\* what retain leaves of a surviving strength
Survivor(val, v) == IF Decays(v) THEN TimesDecay(val) ELSE val

\* natural_selection
natural_selection(st, v) ==
    IF DOMAIN st = {} THEN st
    ELSE LET th == threshold(st, v)
         IN  [t \in {x \in DOMAIN st : Retains(st[x], th)} |-> Survivor(st[t], v)]

-----------------------------------------------------------------------------
(* The training run of main *)

\* segments of the corpus: "ab", "a\u{e9}" (e-acute is the two bytes C3 A9),
\* and the empty segment a chunk that is not valid UTF-8 degrades to
SegAB == <<97, 98>>
SegAE == <<97, 195, 169>>
SegEmpty == <<>>

\* the corpora the run is started on
Corpora == {<<SegAB, SegAB>>, <<SegAE, SegEmpty>>}

Tasks == 1..Len(lines)

RECURSIVE SumBytes(_)
\* the hash of a key: the sum of its bytes
SumBytes(tok) == IF tok = <<>> THEN 0 ELSE Head(tok) + SumBytes(Tail(tok))

\* DashMap::determine_map: the shard the key's hash selects
Shard(tok) == (SumBytes(tok) % NumShards) + 1

\* variant: an entry that takes no lock
ShardFreeAlways(tok) == TRUE

\* the shard's write lock can be taken
ShardFree(tok) == locks[Shard(tok)] = 0

\* variant: a collect that does not wait
AllTraversedNoWait == TRUE

\* par_iter().map(..).collect() returns when every traversal has returned
AllTraversed == \A i \in Tasks : trav[i].pc = "done"

\* variant: for_each returns without waiting for the deposits
AllDepositedNoWait == TRUE

\* into_par_iter().for_each(..) returns when every deposit has returned
AllDeposited == \A i \in Tasks : dep[i].pc = "done"

IdleTrav == [pc |-> "idle", cursor |-> 0, tokens |-> <<>>]
IdleDep == [pc |-> "idle", idx |-> 1, current_val |-> 0]
NoResult == [path |-> <<>>, steps |-> 0]
NoHist(n) == [store0 |-> EmptyStore, selected |-> 0,
              traversed |-> [i \in 1..n |-> 0], deposited |-> [i \in 1..n |-> 0]]
NoOp == [kind |-> "none", store |-> EmptyStore, path |-> <<>>, threshold |-> 0, count |-> 0,
         evicted |-> EmptyStore]
NoTk == [pc |-> "none", vocab |-> EmptyStore, max_token_len |-> 0, text |-> <<>>,
         cursor |-> 0, tokens |-> <<>>]
NoFile == [pc |-> "none", final_vocab |-> <<>>, i |-> 1, bytes |-> <<>>, rd |-> 0,
           vocab |-> EmptyStore, max_len |-> 0]

Init ==
    /\ variant \in Variants
    /\ lines \in Corpora
    /\ store = EmptyStore
    /\ locks = [s \in 1..NumShards |-> 0]
    /\ gen = 0
    /\ mpc = "loop"
    /\ trav = [i \in 1..Len(lines) |-> IdleTrav]
    /\ results = [i \in 1..Len(lines) |-> NoResult]
    /\ dep = [i \in 1..Len(lines) |-> IdleDep]
    /\ hist = NoHist(Len(lines))
    /\ op = NoOp
    /\ tk = NoTk
    /\ file = NoFile

\* for gen in 1..=iterations: the parallel traversal of every line is started
NextGeneration ==
    /\ mpc = "loop"
    /\ gen < iterations
    /\ gen' = gen + 1
    /\ mpc' = "traverse"
    /\ trav' = [i \in Tasks |-> [pc |-> "run", cursor |-> 0, tokens |-> <<>>]]
    /\ results' = [i \in Tasks |-> NoResult]
    /\ UNCHANGED <<variant, lines, store, locks, dep, hist, op, tk, file>>

\* one iteration of the while loop of traverse(lines[i]); &text[cursor..]
\* panics, and the loop goes no further, when the cursor splits a character
TraverseStep(i) ==
    /\ trav[i].pc = "run"
    /\ trav[i].cursor < Len(lines[i])
    /\ is_char_boundary(lines[i], trav[i].cursor)
    /\ \E candidates \in {Candidates(store, Slice(lines[i], trav[i].cursor, Len(lines[i])),
                                       variant)} :
           /\ candidates # <<>>
           /\ \E d \in Thresholds(candidates) \cup {0} :
                LET selected_token == SelectedToken(candidates, d)
                IN  trav' = [trav EXCEPT ![i].tokens = Append(@, selected_token),
                                         ![i].cursor = Advance(@, selected_token)]
           /\ store' = StoreAfterReads(store, candidates, Len(candidates))
    /\ UNCHANGED <<variant, lines, locks, gen, mpc, results, dep, hist, op, tk, file>>

\* the loop of traverse(lines[i]) ends and (tokens, steps) is returned
TraverseReturn(i) ==
    /\ trav[i].pc = "run"
    /\ \/ trav[i].cursor >= Len(lines[i])
       \/ /\ is_char_boundary(lines[i], trav[i].cursor)
          /\ Candidates(store, Slice(lines[i], trav[i].cursor, Len(lines[i])), variant) = <<>>
    /\ results' = [results EXCEPT ![i] = [path |-> trav[i].tokens,
                                          steps |-> Len(trav[i].tokens)]]
    /\ trav' = [trav EXCEPT ![i].pc = "done"]
    /\ hist' = [hist EXCEPT !.traversed[i] = @ + 1]
    /\ UNCHANGED <<variant, lines, store, locks, gen, mpc, dep, op, tk, file>>

\* collect() returns; the parallel deposit of every result is started
CollectResults ==
    /\ mpc = "traverse"
    /\ AllTraversed
    /\ mpc' = "deposit"
    /\ trav' = [i \in Tasks |-> IF trav[i].pc = "done" THEN IdleTrav ELSE trav[i]]
    /\ dep' = [i \in Tasks |-> [pc |-> "next", idx |-> 1, current_val |-> 0]]
    /\ hist' = [hist EXCEPT !.store0 = store]
    /\ UNCHANGED <<variant, lines, store, locks, gen, results, op, tk, file>>

\* the token deposit task i is at
DepToken(i) == results[i].path[dep[i].idx]

\* deposit: the for loop is over
DepositReturn(i) ==
    /\ dep[i].pc = "next"
    /\ dep[i].idx > Len(results[i].path)
    /\ dep' = [dep EXCEPT ![i].pc = "done"]
    /\ hist' = [hist EXCEPT !.deposited[i] = @ + 1]
    /\ UNCHANGED <<variant, lines, store, locks, gen, mpc, trav, results, op, tk, file>>

\* deposit: a token with len <= 1 is passed over
DepositSkip(i) ==
    /\ dep[i].pc = "next"
    /\ dep[i].idx <= Len(results[i].path)
    /\ ~Reinforced(DepToken(i))
    /\ dep' = [dep EXCEPT ![i].idx = @ + 1]
    /\ UNCHANGED <<variant, lines, store, locks, gen, mpc, trav, results, hist, op, tk, file>>

\* deposit: entry(token).or_insert(INITIAL_PHEROMONE) takes the shard's write
\* lock and inserts the token when it is absent
DepositEntry(i) ==
    /\ dep[i].pc = "next"
    /\ dep[i].idx <= Len(results[i].path)
    /\ Reinforced(DepToken(i))
    /\ ShardFree(DepToken(i))
    /\ locks' = [locks EXCEPT ![Shard(DepToken(i))] = i]
    /\ store' = or_insert(store, DepToken(i))
    /\ dep' = [dep EXCEPT ![i].pc = "locked"]
    /\ UNCHANGED <<variant, lines, gen, mpc, trav, results, hist, op, tk, file>>

\* deposit: let current_val = *entry
DepositRead(i) ==
    /\ dep[i].pc = "locked"
    /\ dep' = [dep EXCEPT ![i].pc = "read", ![i].current_val = store[DepToken(i)]]
    /\ UNCHANGED <<variant, lines, store, locks, gen, mpc, trav, results, hist, op, tk, file>>

\* variant: the entry is kept when the iteration ends
DropNothing(i) == locks

\* the locks after task i has dropped its entry, at the end of the `if` block
DropEntry(i) == [s \in 1..NumShards |-> IF locks[s] = i THEN 0 ELSE locks[s]]

\* deposit: delta is computed, added when positive, and the entry is dropped,
\* which releases the shard's lock
DepositWrite(i) ==
    /\ dep[i].pc = "read"
    /\ store' = AddDelta(store, DepToken(i), delta(DepToken(i), dep[i].current_val, variant))
    /\ locks' = DropEntry(i)
    /\ dep' = [dep EXCEPT ![i].pc = "next", ![i].idx = @ + 1]
    /\ UNCHANGED <<variant, lines, gen, mpc, trav, results, hist, op, tk, file>>

\* for_each() returns
JoinDeposits ==
    /\ mpc = "deposit"
    /\ AllDeposited
    /\ mpc' = "select"
    /\ dep' = [i \in Tasks |-> IdleDep]
    /\ UNCHANGED <<variant, lines, store, locks, gen, trav, results, hist, op, tk, file>>

\* colony.natural_selection() on the main thread
NaturalSelection ==
    /\ mpc = "select"
    /\ store' = natural_selection(store, variant)
    /\ mpc' = "loop"
    /\ hist' = [hist EXCEPT !.selected = @ + 1]
    /\ UNCHANGED <<variant, lines, locks, gen, trav, results, dep, op, tk, file>>

\* the loop is over: the store is handed to the persistence code
TrainingComplete ==
    /\ mpc = "loop"
    /\ gen >= iterations
    /\ mpc' = "done"
    /\ UNCHANGED <<variant, lines, store, locks, gen, trav, results, dep, hist, op, tk, file>>

Next ==
    \/ NextGeneration
    \/ \E i \in Tasks : TraverseStep(i)
    \/ \E i \in Tasks : TraverseReturn(i)
    \/ CollectResults
    \/ \E i \in Tasks : DepositReturn(i)
    \/ \E i \in Tasks : DepositSkip(i)
    \/ \E i \in Tasks : DepositEntry(i)
    \/ \E i \in Tasks : DepositRead(i)
    \/ \E i \in Tasks : DepositWrite(i)
    \/ JoinDeposits
    \/ NaturalSelection
    \/ TrainingComplete

Spec == Init /\ [][Next]_vars

\* the main thread and the worker threads of the pool run while one of them can
FairSpec == Spec /\ WF_vars(Next)

-----------------------------------------------------------------------------
(* Sequential use of the colony: deposit and natural_selection called one  *)
(* after another on a store that earlier generations have filled           *)

\* number of calls followed
MaxOps == 2
\* deposits behind a young entry of the starting store
MaxSeedDeposits == 2

\* the tokens "a", "ab", "ba", "\u{e9}", "a\u{e9}", "aba"
TokA == <<97>>
TokAB == <<97, 98>>
TokBA == <<98, 97>>
TokE == <<195, 169>>
TokAE == <<97, 195, 169>>
TokABA == <<97, 98, 97>>

\* the tokens deposit has put into the starting store
OpsTokens == {TokAB, TokBA, TokE, TokAE, TokABA}

\* the paths deposited
OpsPaths == {<<>>, <<TokAB>>, <<TokAB, TokAB>>, <<TokA, TokE>>, <<TokAE, TokBA>>, <<TokABA, TokA>>}

RECURSIVE DepositTimes(_, _, _)
\* the strength of a token k deposits after it was inserted
DepositTimes(tok, k, v) ==
    IF k = 0 THEN Fix(INITIAL_PHEROMONE)
    ELSE LET cur == DepositTimes(tok, k - 1, v)
         IN  IF delta(tok, cur, v) > 0 THEN cur + delta(tok, cur, v) ELSE cur

\* strengths of an entry of the starting store: a young entry, an entry half
\* way to the carrying capacity, and an entry one unit below it
SeedStrengths(tok, v) ==
    {DepositTimes(tok, k, v) : k \in 1..MaxSeedDeposits}
        \cup {Fix(MAX_SCORE) \div 2, Fix(MAX_SCORE) - 1}

InitOps ==
    /\ variant \in Variants
    /\ \E S \in SUBSET OpsTokens :
          store \in {f \in [S -> UNION {SeedStrengths(t, variant) : t \in S}] :
                        \A t \in S : f[t] \in SeedStrengths(t, variant)}
    /\ lines = <<>>
    /\ locks = [s \in 1..NumShards |-> 0]
    /\ gen = 0
    /\ mpc = "none"
    /\ trav = <<>>
    /\ results = <<>>
    /\ dep = <<>>
    /\ hist = NoHist(Len(lines))
    /\ op = NoOp
    /\ tk = NoTk
    /\ file = NoFile

\* history: the entries that a selection removed from st, with their last strength
Evicted(st, after) == [t \in DOMAIN st \ DOMAIN after |-> st[t]]

\* colony.deposit(&path, steps), alone on the store
OpsDeposit(path) ==
    /\ op.count < MaxOps
    /\ store' = deposit(store, path, variant)
    /\ op' = [kind |-> "deposit", store |-> store, path |-> path, threshold |-> 0,
              count |-> op.count + 1, evicted |-> op.evicted]
    /\ UNCHANGED <<variant, lines, locks, gen, mpc, trav, results, dep, hist, tk, file>>

\* colony.natural_selection(), alone on the store
OpsSelection ==
    /\ op.count < MaxOps
    /\ store' = natural_selection(store, variant)
    /\ op' = [kind |-> "select", store |-> store, path |-> <<>>,
              threshold |-> IF DOMAIN store = {} THEN 0 ELSE threshold(store, variant),
              count |-> op.count + 1,
              evicted |-> Evicted(store, natural_selection(store, variant)) @@ op.evicted]
    /\ UNCHANGED <<variant, lines, locks, gen, mpc, trav, results, dep, hist, tk, file>>

NextOps ==
    \/ \E path \in OpsPaths : OpsDeposit(path)
    \/ OpsSelection

SpecOps == InitOps /\ [][NextOps]_vars

-----------------------------------------------------------------------------
(* One traversal of a segment longer than MAX_TOKEN_LEN characters, on a     *)
(* store that training has filled                                            *)

\* the segments "", "abababababa" and "a\u{e9}ba\u{e9}ba\u{e9}ba\u{e9}", of 11 characters
TravTexts ==
    {<<>>,
     <<97, 98, 97, 98, 97, 98, 97, 98, 97, 98, 97>>,
     <<97, 195, 169, 98, 97, 195, 169, 98, 97, 195, 169, 98, 97, 195, 169>>}

\* the stores traversed: empty, or one entry that deposit has reinforced
TravStores(v) ==
    {EmptyStore} \cup UNION {{(t :> x) : x \in SeedStrengths(t, v)} : t \in {TokAB, TokAE}}

\* colony.traverse(text) is called
InitTrav ==
    /\ variant \in Variants
    /\ lines \in {<<text>> : text \in TravTexts}
    /\ store \in TravStores(variant)
    /\ locks = [s \in 1..NumShards |-> 0]
    /\ gen = 0
    /\ mpc = "none"
    /\ trav = <<[IdleTrav EXCEPT !.pc = "run"]>>
    /\ results = <<NoResult>>
    /\ dep = <<IdleDep>>
    /\ hist = NoHist(Len(lines))
    /\ op = NoOp
    /\ tk = NoTk
    /\ file = NoFile

NextTrav ==
    \/ TraverseStep(1)
    \/ TraverseReturn(1)

SpecTrav == InitTrav /\ [][NextTrav]_vars

\* the thread that runs traverse is scheduled until it returns
FairTrav == SpecTrav /\ WF_vars(NextTrav)

-----------------------------------------------------------------------------
(* The deposit phase of one generation, on a store that earlier generations  *)
(* have filled and on paths that meet on the same tokens and shards          *)

\* the paths deposited in parallel: [], ["ab", "ba"], ["ba", "ab"],
\* ["aba", "ab"], ["a", "ab"]
DepPaths ==
    {<<>>, <<TokAB, TokBA>>, <<TokBA, TokAB>>, <<TokABA, TokAB>>, <<TokA, TokAB>>}

\* the stores the phase starts on: empty; "ab" at a strength where one more
\* update changes the delta of the next one by a unit; and "ab" one unit below
\* the capacity beside "ba" half way to it
DepStores(v) ==
    {EmptyStore,
     (TokAB :> MAX_SCORE \div 2 - 5),
     (TokAB :> Fix(MAX_SCORE) - 1) @@ (TokBA :> Fix(MAX_SCORE) \div 2)}

\* collect() has returned the paths of three segments and
\* results.into_par_iter().for_each(deposit) starts
InitDep ==
    /\ variant \in Variants
    /\ \E p1, p2, p3 \in DepPaths :
          /\ lines = <<Concat(p1), Concat(p2), Concat(p3)>>
          /\ results = <<[path |-> p1, steps |-> Len(p1)], [path |-> p2, steps |-> Len(p2)],
                         [path |-> p3, steps |-> Len(p3)]>>
    /\ store \in DepStores(variant)
    /\ locks = [s \in 1..NumShards |-> 0]
    /\ gen = 1
    /\ mpc = "deposit"
    /\ trav = [i \in 1..Len(lines) |-> IdleTrav]
    /\ dep = [i \in 1..Len(lines) |-> [pc |-> "next", idx |-> 1, current_val |-> 0]]
    /\ hist = [NoHist(Len(lines)) EXCEPT !.store0 = store,
                                         !.traversed = [i \in 1..Len(lines) |-> 1]]
    /\ op = NoOp
    /\ tk = NoTk
    /\ file = NoFile

\* the steps of the deposit task i
DepositTask(i) ==
    \/ DepositReturn(i)
    \/ DepositSkip(i)
    \/ DepositEntry(i)
    \/ DepositRead(i)
    \/ DepositWrite(i)

NextDep ==
    \/ \E i \in Tasks : DepositReturn(i)
    \/ \E i \in Tasks : DepositSkip(i)
    \/ \E i \in Tasks : DepositEntry(i)
    \/ \E i \in Tasks : DepositRead(i)
    \/ \E i \in Tasks : DepositWrite(i)
    \/ JoinDeposits

SpecDep == InitDep /\ [][NextDep]_vars

\* every worker thread of the pool that has a deposit to run is scheduled
FairDep == SpecDep /\ \A i \in 1..3 : WF_vars(DepositTask(i))

-----------------------------------------------------------------------------
(* The greedy tokenizer *)

\* the slice of text that starts at character cursor and is j characters long:
\* &text[start_byte..end_byte] of tokenize
CharSlice(text, chars, cursor, j) ==
    LET char_count == Len(chars)
        start_byte == chars[cursor + 1][1]
        end_index == cursor + j
        end_byte == IF end_index < char_count THEN chars[end_index + 1][1] ELSE Len(text)
    IN  Slice(text, start_byte, end_byte)

\* `score > best_score || (score == best_score && j > best_len)`
Better(score, j, best) == score > best.best_score \/ (score = best.best_score /\ j > best.best_len)

\* the state of the search before the first candidate: None, 0, -1.0
NoBest == [found |-> FALSE, best_match |-> <<>>, best_len |-> 0, best_score |-> Fix(0 - 1)]

RECURSIVE Search(_, _, _, _, _)
\* the loop `for j in 1..=search_depth` after its first j iterations
Search(vocab, text, chars, cursor, j) ==
    IF j = 0 THEN NoBest
    ELSE LET best == Search(vocab, text, chars, cursor, j - 1)
             slice == CharSlice(text, chars, cursor, j)
         IN  IF slice \in DOMAIN vocab /\ Better(vocab[slice], j, best)
             THEN [found |-> TRUE, best_match |-> slice, best_len |-> j,
                   best_score |-> vocab[slice]]
             ELSE best

\* variant: the cursor advanced by one character
CursorAfterOne(cursor, best_len) == cursor + 1

\* cursor += best_len
CursorAfter(cursor, best_len) == cursor + best_len

\* the input texts: "", "ab", "a\u{e9}", "\u{e9}ab", "aba"
TokTexts == {<<>>, TokAB, TokAE, <<195, 169, 97, 98>>, TokABA}

\* the tokens of the vocabulary file
VocabTokens == {TokA, TokAB, TokE, TokAE, TokABA}

\* the scores of the vocabulary file: -2.0, -1.0, 0.0, 5.0
VocabScores == {Fix(0 - 2), Fix(0 - 1), 0, Fix(5)}

\* the longest key of a vocabulary, in characters
MaxKeyChars(vocab) ==
    IF DOMAIN vocab = {} THEN 0
    ELSE CHOOSE n \in {CharCount(t) : t \in DOMAIN vocab} :
            \A t \in DOMAIN vocab : CharCount(t) <= n

\* the tokenizer Tokenizer::load built, called on a text: max_token_len is the
\* longest token of the file, counted before unescaping (an escaped newline
\* counts as two characters)
InitTok ==
    /\ variant = "main"
    /\ store = EmptyStore
    /\ lines = <<>>
    /\ locks = [s \in 1..NumShards |-> 0]
    /\ gen = 0
    /\ mpc = "none"
    /\ trav = <<>>
    /\ results = <<>>
    /\ dep = <<>>
    /\ hist = NoHist(Len(lines))
    /\ op = NoOp
    /\ file = NoFile
    /\ \E S \in SUBSET VocabTokens : \E vocab \in [S -> VocabScores] :
       \E text \in TokTexts : \E extra \in {0, 1} :
          tk = [pc |-> "run", vocab |-> vocab,
                max_token_len |-> MaxKeyChars(vocab) + extra,
                text |-> text, cursor |-> 0, tokens |-> <<>>]

\* one iteration of the while loop of tokenize
TokenizeStep ==
    /\ tk.pc = "run"
    /\ LET chars == char_indices(tk.text)
           char_count == Len(chars)
           remaining == char_count - tk.cursor
           search_depth == Min(remaining, tk.max_token_len)
           best == Search(tk.vocab, tk.text, chars, tk.cursor, search_depth)
       IN  /\ tk.cursor < char_count
           /\ IF best.found
              THEN tk' = [tk EXCEPT !.tokens = Append(@, best.best_match),
                                    !.cursor = CursorAfter(@, best.best_len)]
              ELSE tk' = [tk EXCEPT !.tokens = Append(@, CharSlice(tk.text, chars, tk.cursor, 1)),
                                    !.cursor = @ + 1]
    /\ UNCHANGED <<variant, lines, store, locks, gen, mpc, trav, results, dep, hist, op, file>>

\* the while loop of tokenize ends and tokens is returned
TokenizeReturn ==
    /\ tk.pc = "run"
    /\ tk.cursor >= CharCount(tk.text)
    /\ tk' = [tk EXCEPT !.pc = "done"]
    /\ UNCHANGED <<variant, lines, store, locks, gen, mpc, trav, results, dep, hist, op, file>>

NextTok ==
    \/ TokenizeStep
    \/ TokenizeReturn

SpecTok == InitTok /\ [][NextTok]_vars

-----------------------------------------------------------------------------
(* The vocabulary file tokens.txt: main writes it, Tokenizer::load reads it *)

\* longest token of the exhaustive single-entry stores, in bytes
MaxFileTokenLen == 3
\* most lines of a file that was not written by main
MaxFileLines == 2

RECURSIVE Replace(_, _, _)
\* str::replace: every non-overlapping match of from, leftmost first, becomes to
Replace(s, from, to) ==
    IF Len(s) < Len(from) THEN s
    ELSE IF SubSeq(s, 1, Len(from)) = from
         THEN to \o Replace(SubSeq(s, Len(from) + 1, Len(s)), from, to)
         ELSE <<Head(s)>> \o Replace(Tail(s), from, to)

\* str::starts_with
starts_with(s, prefix) == Len(s) >= Len(prefix) /\ SubSeq(s, 1, Len(prefix)) = prefix

\* t.replace("\r", "\\r").replace("\n", "\\n")
Escape(t) == Replace(Replace(t, <<13>>, <<92, 114>>), <<10>>, <<92, 110>>)

\* token.replace("\\n", "\n").replace("\\r", "\r")
Unescape(t) == Replace(Replace(t, <<92, 110>>, <<10>>), <<92, 114>>, <<13>>)

RECURSIVE Digits(_)
\* the decimal digits of a natural number
Digits(n) == IF n < 10 THEN <<48 + n>> ELSE Digits(n \div 10) \o <<48 + (n % 10)>>

\* format!("{:.4}", s) of a strength s >= 0: the integer part, '.', four digits of
\* the fraction rounded to the nearest
Format4(x) ==
    LET frac == (2 * (x % SCALE) * 10000 + SCALE) \div (2 * SCALE)
        ip == IF frac = 10000 THEN x \div SCALE + 1 ELSE x \div SCALE
        fr == IF frac = 10000 THEN 0 ELSE frac
    IN  Digits(ip) \o <<46>> \o Tail(Digits(10000 + fr))

\* the line "Token\tScore"
Header == <<84, 111, 107, 101, 110, 9, 83, 99, 111, 114, 101>>

\* the prefix "Token\t" by which load recognises the header
HeaderPrefix == <<84, 111, 107, 101, 110, 9>>

\* writeln!(file, "{}\t{:.4}", safe_t, s)
EntryLine(t, s) == Escape(t) \o <<9>> \o Format4(s) \o <<10>>

\* the line without the "\r" that preceded its "\n"
StripCR(line) ==
    IF line # <<>> /\ line[Len(line)] = 13 THEN SubSeq(line, 1, Len(line) - 1) ELSE line

RECURSIVE SplitLines(_, _)
\* BufRead::lines: the bytes split at each "\n", "\r\n" counting as one line end
SplitLines(bytes, cur) ==
    IF bytes = <<>> THEN (IF cur = <<>> THEN <<>> ELSE <<cur>>)
    ELSE IF Head(bytes) = 10 THEN <<StripCR(cur)>> \o SplitLines(Tail(bytes), <<>>)
    ELSE SplitLines(Tail(bytes), Append(cur, Head(bytes)))

FileLines(bytes) == SplitLines(bytes, <<>>)

\* str::rsplit_once('\t'): the position of the last tab, 0 when there is none
LastTab(line) ==
    IF \E k \in 1..Len(line) : line[k] = 9
    THEN CHOOSE k \in 1..Len(line) : line[k] = 9 /\ \A m \in (k + 1)..Len(line) : line[m] # 9
    ELSE 0

RECURSIVE TrimStart(_)
\* str::trim_start on the white space of a score field
TrimStart(s) ==
    IF s # <<>> /\ Head(s) \in {9, 10, 13, 32} THEN TrimStart(Tail(s)) ELSE s

RECURSIVE TrimEnd(_)
TrimEnd(s) ==
    IF s # <<>> /\ s[Len(s)] \in {9, 10, 13, 32} THEN TrimEnd(SubSeq(s, 1, Len(s) - 1)) ELSE s

\* str::trim
Trim(s) == TrimEnd(TrimStart(s))

RECURSIVE DigitsValue(_)
\* the number a sequence of decimal digits writes
DigitsValue(ds) ==
    IF ds = <<>> THEN 0
    ELSE 10 * DigitsValue(SubSeq(ds, 1, Len(ds) - 1)) + (ds[Len(ds)] - 48)

\* str::parse::<f64> on a decimal numeral: an optional sign, digits, at most one
\* '.', at least one digit; any other text of the files below is an Err
ParseF64(s) ==
    LET neg == s # <<>> /\ s[1] = 45
        body == IF s # <<>> /\ s[1] \in {43, 45} THEN Tail(s) ELSE s
        dots == {k \in 1..Len(body) : body[k] = 46}
        ok == /\ \A k \in 1..Len(body) : body[k] \in 48..57 \/ body[k] = 46
              /\ Cardinality(dots) <= 1
              /\ \E k \in 1..Len(body) : body[k] \in 48..57
        dot == IF dots = {} THEN Len(body) + 1 ELSE CHOOSE k \in dots : TRUE
        ip == SubSeq(body, 1, dot - 1)
        fp == SubSeq(body, dot + 1, Len(body))
        mag == DigitsValue(ip) * SCALE
                 + (2 * DigitsValue(fp) * SCALE + Pow(10, Len(fp))) \div (2 * Pow(10, Len(fp)))
    IN  [ok |-> ok, val |-> IF ~ok THEN 0 ELSE IF neg THEN 0 - mag ELSE mag]

\* score_str.trim().parse::<f64>().unwrap_or(0.0)
ScoreOf(score_str) == ParseF64(Trim(score_str)).val

\* line.starts_with("Token\t")
IsHeader(line) == starts_with(line, HeaderPrefix)

\* the body of the loop of load for one line, on the locals vocab, max_len
LoadLine(line, ld) ==
    IF IsHeader(line) THEN ld
    ELSE IF LastTab(line) = 0 THEN ld
    ELSE LET token == SubSeq(line, 1, LastTab(line) - 1)
             score_str == SubSeq(line, LastTab(line) + 1, Len(line))
             char_count == CharCount(token)
             unescaped == Unescape(token)
         IN  [vocab |-> [k \in DOMAIN ld.vocab \cup {unescaped} |->
                            IF k = unescaped THEN ScoreOf(score_str) ELSE ld.vocab[k]],
              max_len |-> Max(ld.max_len, char_count)]

\* the bytes of the tokens of the exhaustive stores: a \ n r "\n" "\r" "\t"
FileAlphabet == {97, 92, 110, 114, 10, 13, 9}

\* the tokens "Token", "Token\t\n", "a\n", "a\\n", "a b"
TokToken == <<84, 111, 107, 101, 110>>
TokTokenTabNl == <<84, 111, 107, 101, 110, 9, 10>>
TokANl == <<97, 10>>
TokABackslashN == <<97, 92, 110>>
TokASpaceB == <<97, 32, 98>>

\* the tokens of the stores of two entries
PairTokens == {TokAB, TokToken, TokTokenTabNl, TokANl, TokABackslashN, TokASpaceB}

\* the tokens of the stores of one entry: every text of 2..MaxFileTokenLen bytes
\* of FileAlphabet, and the tokens above
SingleTokens == PairTokens \cup UNION {[1..n -> FileAlphabet] : n \in 2..MaxFileTokenLen}

\* the stores main persists: deposit has inserted and reinforced each entry
FileStores ==
    LET sets == {{t} : t \in SingleTokens} \cup {{t, u} : t \in PairTokens, u \in PairTokens}
    IN  UNION {{f \in [S -> UNION {{DepositTimes(t, k, "main") : k \in 1..MaxSeedDeposits} : t \in S}] :
                   \A t \in S : f[t] \in {DepositTimes(t, k, "main") : k \in 1..MaxSeedDeposits}} :
               S \in sets \cup {{}}}

\* lines of a file that main did not write: "ab\t5.0000", "ab" (no tab),
\* "ab\tx" and "a\\n\t" (no number), "a\tb\t -2.5\r", "ba\t3"
HandLines ==
    {Header,
     <<97, 98, 9, 53, 46, 48, 48, 48, 48>>,
     <<97, 98>>,
     <<97, 98, 9, 120>>,
     <<97, 92, 110, 9>>,
     <<97, 9, 98, 9, 32, 45, 50, 46, 53, 13>>,
     <<98, 97, 9, 51>>}

RECURSIVE JoinLines(_)
\* the lines of a file, each ended by "\n"
JoinLines(ls) == IF ls = <<>> THEN <<>> ELSE Head(ls) \o <<10>> \o JoinLines(Tail(ls))

\* the files that main did not write
HandFiles == {JoinLines(ls) : ls \in UNION {[1..n -> HandLines] : n \in 0..MaxFileLines}}

\* main after training, about to save the vocabulary; or Tokenizer::load about
\* to read a file that main did not write
InitFile ==
    /\ variant = "main"
    /\ lines = <<>>
    /\ locks = [s \in 1..NumShards |-> 0]
    /\ gen = 0
    /\ mpc = "none"
    /\ trav = <<>>
    /\ results = <<>>
    /\ dep = <<>>
    /\ hist = NoHist(Len(lines))
    /\ op = NoOp
    /\ tk = NoTk
    /\ \/ /\ store \in FileStores
          /\ file = [NoFile EXCEPT !.pc = "sort"]
       \/ /\ store = EmptyStore
          /\ \E bytes \in HandFiles : file = [NoFile EXCEPT !.pc = "load", !.bytes = bytes]

\* all_tokens is collected from the store, in the order of its iterator, and
\* sorted by descending score with a stable sort
SortVocab ==
    /\ file.pc = "sort"
    /\ \E q \in [1..Cardinality(DOMAIN store) -> DOMAIN store] :
          /\ \A a, b \in 1..Cardinality(DOMAIN store) : a # b => q[a] # q[b]
          /\ \A a, b \in 1..Cardinality(DOMAIN store) : a < b => store[q[a]] >= store[q[b]]
          /\ file' = [file EXCEPT !.pc = "header",
                                  !.final_vocab = [a \in 1..Cardinality(DOMAIN store) |->
                                                      <<q[a], store[q[a]]>>]]
    /\ UNCHANGED <<variant, lines, store, locks, gen, mpc, trav, results, dep, hist, op, tk>>

\* writeln!(file, "Token\tScore")
WriteHeader ==
    /\ file.pc = "header"
    /\ file' = [file EXCEPT !.pc = "entries", !.bytes = Header \o <<10>>]
    /\ UNCHANGED <<variant, lines, store, locks, gen, mpc, trav, results, dep, hist, op, tk>>

\* one iteration of `for (t, s) in final_vocab`
WriteEntry ==
    /\ file.pc = "entries"
    /\ file.i <= Len(file.final_vocab)
    /\ file' = [file EXCEPT !.i = @ + 1,
                            !.bytes = @ \o EntryLine(file.final_vocab[file.i][1],
                                                     file.final_vocab[file.i][2])]
    /\ UNCHANGED <<variant, lines, store, locks, gen, mpc, trav, results, dep, hist, op, tk>>

\* the loop is over, main returns and the file is closed; load opens it
WriteDone ==
    /\ file.pc = "entries"
    /\ file.i > Len(file.final_vocab)
    /\ file' = [file EXCEPT !.pc = "load"]
    /\ UNCHANGED <<variant, lines, store, locks, gen, mpc, trav, results, dep, hist, op, tk>>

\* one iteration of `for line in io::BufReader::new(file).lines()`
LoadStep ==
    /\ file.pc = "load"
    /\ file.rd < Len(FileLines(file.bytes))
    /\ LET ld == LoadLine(FileLines(file.bytes)[file.rd + 1],
                          [vocab |-> file.vocab, max_len |-> file.max_len])
       IN  file' = [file EXCEPT !.rd = @ + 1, !.vocab = ld.vocab, !.max_len = ld.max_len]
    /\ UNCHANGED <<variant, lines, store, locks, gen, mpc, trav, results, dep, hist, op, tk>>

\* Ok(Tokenizer { vocab, max_token_len: max_len })
LoadReturn ==
    /\ file.pc = "load"
    /\ file.rd >= Len(FileLines(file.bytes))
    /\ file' = [file EXCEPT !.pc = "loaded"]
    /\ tk' = [NoTk EXCEPT !.vocab = file.vocab, !.max_token_len = file.max_len]
    /\ UNCHANGED <<variant, lines, store, locks, gen, mpc, trav, results, dep, hist, op>>

NextFile ==
    \/ SortVocab
    \/ WriteHeader
    \/ WriteEntry
    \/ WriteDone
    \/ LoadStep
    \/ LoadReturn

SpecFile == InitFile /\ [][NextFile]_vars

-----------------------------------------------------------------------------
(* Properties *)

Range(f) == {f[x] : x \in DOMAIN f}

\* the result of traverse(lines[i]) has been returned
Returned(i) == trav[i].pc = "done" \/ mpc \in {"deposit", "select"}

\* C1: the path traverse returns for a segment, concatenated in order, is the
\* segment byte for byte, and the step count it returns is the number of
\* tokens of the path, whatever the store holds and whatever was drawn.
C1_TraversalReconstructs ==
    \A i \in Tasks :
        Returned(i) =>
            /\ Concat(results[i].path) = lines[i]
            /\ results[i].steps = Len(results[i].path)

\* a traversal of "a\u{e9}" over a non-empty store has returned a two-token path
C1_Witness ==
    \E i \in Tasks :
        /\ trav[i].pc = "done"
        /\ lines[i] = SegAE
        /\ Len(results[i].path) = 2
        /\ store # EmptyStore

\* C2: the tokens tokenize returns, concatenated in order, are the input text,
\* for every vocabulary (the empty one and any scores included).
C2_TokenizerReconstructs ==
    tk.pc = "done" => Concat(tk.tokens) = tk.text

\* "\u{e9}ab" was tokenized into the fallback character "\u{e9}" and the vocabulary token "ab"
C2_Witness ==
    /\ tk.pc = "done"
    /\ tk.text = <<195, 169, 97, 98>>
    /\ tk.tokens = <<TokE, TokAB>>
    /\ TokE \notin DOMAIN tk.vocab

\* deposit task i is inside the read-modify-write of its token
InUpdate(i) == dep[i].pc \in {"locked", "read"}

\* the number of times tok occurs in path
Occurrences(path, tok) == Cardinality({k \in 1..Len(path) : path[k] = tok})

RECURSIVE TotalOccurrences(_, _)
\* the number of times tok occurs in the paths of the tasks 1..n
TotalOccurrences(n, tok) ==
    IF n = 0 THEN 0 ELSE TotalOccurrences(n - 1, tok) + Occurrences(results[n].path, tok)

RECURSIVE UpdatedTimes(_, _, _, _)
\* the strength x after m updates of tok, one after another
UpdatedTimes(tok, x, m, v) ==
    IF m = 0 THEN x
    ELSE LET cur == UpdatedTimes(tok, x, m - 1, v)
         IN  IF delta(tok, cur, v) > 0 THEN cur + delta(tok, cur, v) ELSE cur

\* C3: two deposit tasks are never inside the read-modify-write of the same
\* token at once, and when all deposit tasks have finished, a multi-character
\* token that occurs m times in their paths has the strength that m updates,
\* one after another, give to the strength it had when the phase began.
C3_NoLostUpdate ==
    /\ \A i, j \in Tasks :
          (i # j /\ InUpdate(i) /\ InUpdate(j)) => DepToken(i) # DepToken(j)
    /\ mpc = "select" =>
          \A i \in Tasks : \A t \in Range(results[i].path) :
              CharCount(t) > 1 =>
                  /\ t \in DOMAIN store
                  /\ store[t] = UpdatedTimes(t, get_pheromone(hist.store0, t),
                                             TotalOccurrences(Len(lines), t), variant)

\* both parallel deposit tasks have reinforced "ab", which the store already held
C3_Witness ==
    /\ mpc = "select"
    /\ lines = <<SegAB, SegAB>>
    /\ \A i \in Tasks : results[i].path = <<TokAB>>
    /\ TokAB \in DOMAIN hist.store0

TravInFlight == \E i \in Tasks : trav[i].pc = "run"
DepInFlight == \E i \in Tasks : dep[i].pc \in {"next", "locked", "read"}

\* C4: no deposit is in flight while a traversal is, selection runs only when
\* neither is in flight, and a traversal of generation gen is in flight only
\* when the selections of all gen - 1 earlier generations have completed.
C4_PhaseSeparation ==
    /\ ~(TravInFlight /\ DepInFlight)
    /\ mpc = "select" => (~TravInFlight /\ ~DepInFlight)
    /\ (TravInFlight \/ DepInFlight) => hist.selected = gen - 1
    /\ mpc \in {"loop", "done"} => (~TravInFlight /\ ~DepInFlight /\ hist.selected = gen)

\* a deposit of the second generation is in flight
C4_Witness ==
    /\ gen = 2
    /\ DepInFlight
    /\ \E i \in Tasks : InUpdate(i)

\* C5: every stored strength is strictly below the carrying capacity.
C5_BelowCapacity ==
    \A t \in DOMAIN store : store[t] < Fix(MAX_SCORE)

\* a deposit has reinforced a token that was one unit below the capacity
C5_Witness ==
    /\ op.kind = "deposit"
    /\ \E t \in Range(op.path) :
          /\ t \in DOMAIN op.store
          /\ op.store[t] = Fix(MAX_SCORE) - 1

RECURSIVE ClaimedUpdates(_, _, _, _)
\* the update rule on character lengths, applied m times to the strength x
ClaimedUpdates(tok, x, m, v) ==
    IF m = 0 THEN x
    ELSE LET cur == ClaimedUpdates(tok, x, m - 1, v)
             rew == Pow(CharCount(tok) - 1, Q(v))
             d == rew * SCALE - MulDivScore(rew, cur)
         IN  IF d > 0 THEN cur + d ELSE cur

\* C6: deposit applies, once per occurrence of a token longer than one
\* character, the update current -> current + delta when
\* delta = (length - 1)^q * (1 - current / C) is positive, length counted in
\* characters and current starting at 1.0 for an absent token; every other
\* entry is left as it was, and no strength decreases.
C6_DepositRule ==
    op.kind = "deposit" =>
        /\ \A t \in DOMAIN op.store : t \in DOMAIN store /\ store[t] >= op.store[t]
        /\ \A t \in DOMAIN store :
              LET m == IF CharCount(t) > 1 THEN Occurrences(op.path, t) ELSE 0
              IN  /\ (t \notin DOMAIN op.store) => m > 0
                  /\ store[t] = ClaimedUpdates(t, get_pheromone(op.store, t), m, variant)

\* C7: the store never holds a token of exactly one character.
C7_NoSingleCharacterToken ==
    \A t \in DOMAIN store : CharCount(t) > 1

\* C8 as stated: after natural_selection every entry of the store has a
\* strength of at least the threshold the selection computed.
C8_SurvivorsAtLeastThreshold ==
    op.kind = "select" =>
        \A t \in DOMAIN store : store[t] >= op.threshold

\* C8: after natural_selection every entry of the store had, before the
\* selection, a strength of at least the threshold the selection computed; in
\* main.rs its strength is unchanged (so it is still at least the threshold), in
\* ant_colony.rs it is 0.8 times the strength it had.
C8_SurvivorsWereAtLeastThreshold ==
    op.kind = "select" =>
        \A t \in DOMAIN store :
            /\ t \in DOMAIN op.store
            /\ op.store[t] >= op.threshold
            /\ variant = "main" => (store[t] = op.store[t] /\ store[t] >= op.threshold)
            /\ variant = "colony" => store[t] = TimesDecay(op.store[t])

\* the decaying selection has left a survivor below the threshold it computed
C8_Witness ==
    /\ op.kind = "select"
    /\ variant = "colony"
    /\ \E t \in DOMAIN store : store[t] < op.threshold
    /\ \E t \in DOMAIN op.store : t \notin DOMAIN store

\* cut = min(max(1, floor(N * r)), N - 1)
ClaimedCut(n, v) ==
    LET r == keep_ratio(v)
        fl == CHOOSE k \in 0..n : k * r[2] <= n * r[1] /\ n * r[1] < (k + 1) * r[2]
    IN  Min(Max(1, fl), n - 1)

\* C9: natural_selection on N >= 1 entries takes as threshold the strength
\* at 0-indexed rank cut of the strengths in descending order, removes exactly
\* the entries strictly below it, adds none, and does nothing on an empty store.
C9_PruningRule ==
    op.kind = "select" =>
        LET old == op.store
            n == Cardinality(DOMAIN old)
            cut == ClaimedCut(n, variant)
            th == op.threshold
        IN  IF n = 0 THEN store = old
            ELSE /\ \E t \in DOMAIN old : old[t] = th
                 /\ Cardinality({t \in DOMAIN old : old[t] > th}) <= cut
                 /\ Cardinality({t \in DOMAIN old : old[t] >= th}) >= cut + 1
                 /\ DOMAIN store = {t \in DOMAIN old : old[t] >= th}
                 /\ Cardinality(DOMAIN store) <= n

\* a selection over five entries (cut = 2) has removed entries and kept two
\* entries whose strength equals the threshold
C9_Witness ==
    /\ op.kind = "select"
    /\ variant = "colony"
    /\ Cardinality(DOMAIN op.store) = 5
    /\ Cardinality(DOMAIN store) < 5
    /\ \E t, u \in DOMAIN store :
          t # u /\ op.store[t] = op.threshold /\ op.store[u] = op.threshold

\* C10: while the traversals of a generation run, no step inserts, removes or
\* changes a store entry: every traversal of the generation reads the same store.
C10_TraversalReadOnly ==
    [][mpc = "traverse" => store' = store]_vars

\* a traversal has returned a path holding a token the non-empty store lacks:
\* get_pheromone was called on an absent token
C10_Witness ==
    /\ mpc = "traverse"
    /\ store # EmptyStore
    /\ \E i \in Tasks :
          /\ trav[i].pc = "done"
          /\ \E t \in Range(results[i].path) : t \notin DOMAIN store


\* the character position at which the k-th emitted token starts
EmitPos(k) == CharCount(Concat(SubSeq(tk.tokens, 1, k - 1)))

\* the lengths j of the candidates at character position pos that the vocabulary holds
PresentAt(pos) ==
    LET chars == char_indices(tk.text)
        depth == Min(Len(chars) - pos, tk.max_token_len)
    IN  {j \in 1..depth : CharSlice(tk.text, chars, pos, j) \in DOMAIN tk.vocab}

\* C11: every emitted token is, when the vocabulary holds a candidate at its
\* position, the candidate it holds with the highest score, the longest of
\* them on equal scores; it is the single next character only when the
\* vocabulary holds no candidate there.
C11_GreedySelection ==
    \A k \in 1..Len(tk.tokens) :
        LET chars == char_indices(tk.text)
            pos == EmitPos(k)
            present == PresentAt(pos)
            sc(j) == tk.vocab[CharSlice(tk.text, chars, pos, j)]
        IN  IF present # {}
            THEN \E j \in present :
                    /\ \A i \in present : sc(j) > sc(i) \/ (sc(j) = sc(i) /\ j >= i)
                    /\ tk.tokens[k] = CharSlice(tk.text, chars, pos, j)
            ELSE tk.tokens[k] = CharSlice(tk.text, chars, pos, 1)


\* the token holds a raw newline or carriage return
HasRawBreak(t) == \E k \in 1..Len(t) : t[k] \in {10, 13}

\* the token holds the two characters backslash-n or backslash-r
HasLiteralEscape(t) == \E k \in 1..(Len(t) - 1) : t[k] = 92 /\ t[k + 1] \in {110, 114}

\* C12: once the file that main wrote is loaded, every token of the store
\* that holds a raw newline or carriage return, and not the two characters
\* backslash-n or backslash-r, is a key of the vocabulary, byte for byte.
C12_EscapingRoundTrip ==
    file.pc = "loaded" =>
        \A t \in DOMAIN store : (HasRawBreak(t) /\ ~HasLiteralEscape(t)) => t \in DOMAIN file.vocab

\* C13: once the file that main wrote is loaded, only its first line was
\* skipped and every other line became an entry: the keys of the vocabulary
\* are the tokens of the store, whatever text they hold.
C13_LoaderSkipsOnlyHeader ==
    (file.pc = "loaded" /\ file.final_vocab # <<>>) => DOMAIN file.vocab = DOMAIN store

\* the line has a tab and its score field is a number
WellFormed(line) ==
    LastTab(line) # 0 /\ ParseF64(Trim(SubSeq(line, LastTab(line) + 1, Len(line)))).ok

RECURSIVE LoadAll(_, _)
\* load on a whole sequence of lines
LoadAll(ls, ld) == IF ls = <<>> THEN ld ELSE LoadAll(Tail(ls), LoadLine(Head(ls), ld))

\* C14: the load reaches the end of the file, and the vocabulary it returns
\* holds nothing of the lines without a tab or without a number for a score:
\* it is the vocabulary of the file without those lines.
C14_MalformedLinesSkipped ==
    file.pc = "loaded" =>
        file.vocab = LoadAll(SelectSeq(FileLines(file.bytes), WellFormed),
                             [vocab |-> EmptyStore, max_len |-> 0]).vocab


Boundaries(text) == {ci[1] : ci \in Range(char_indices(text))} \cup {Len(text)}

\* C16: a traversal of a segment returns; on its way it has run at most as
\* many iterations as the segment has characters, and every token it chose
\* holds between 1 and MAX_TOKEN_LEN whole characters of the segment.
C16_TraversalTerminates ==
    /\ [](\A i \in DOMAIN trav :
            /\ Len(trav[i].tokens) <= CharCount(lines[i])
            /\ trav[i].cursor \in Boundaries(lines[i])
            /\ \A k \in 1..Len(trav[i].tokens) :
                  /\ CharCount(trav[i].tokens[k]) \in 1..MAX_TOKEN_LEN
                  /\ Len(Concat(SubSeq(trav[i].tokens, 1, k))) \in Boundaries(lines[i]))
    /\ <>(\A i \in DOMAIN trav : trav[i].pc = "done")

\* a traversal of a segment of more than MAX_TOKEN_LEN characters has returned
\* with a token of MAX_TOKEN_LEN characters, some of them multi-byte
C16_Witness ==
    /\ trav # <<>>
    /\ trav[1].pc = "done"
    /\ CharCount(lines[1]) > MAX_TOKEN_LEN
    /\ \E k \in 1..Len(trav[1].tokens) :
          /\ CharCount(trav[1].tokens[k]) = MAX_TOKEN_LEN
          /\ Len(trav[1].tokens[k]) > MAX_TOKEN_LEN


\* the candidates of the next iteration of the traversal task i
CandidatesOf(i) ==
    Candidates(store, Slice(lines[i], trav[i].cursor, Len(lines[i])), variant)

\* C17: at every step of a traversal, the weight of every candidate is
\* max(ln(strength), 0.0001) times the number of its characters to the power
\* BETA, also for a candidate that holds multi-byte characters.
C17_WeightUsesCharacterLength ==
    \A i \in DOMAIN trav :
        trav[i].pc = "run" =>
            \A k \in DOMAIN CandidatesOf(i) :
                LET c == CandidatesOf(i)[k]
                IN  c.prob = Max(Ln(get_pheromone(store, c.tok)), 1)
                               * Pow(CharCount(c.tok), BETA(variant))

\* C18: at every step of a traversal whose candidates have a positive total
\* weight, every draw d in [0, total) selects a candidate, the first one whose
\* cumulative weight is >= d, and every candidate is selected by some draw.
C18_RouletteWheel ==
    \A i \in DOMAIN trav :
        (trav[i].pc = "run" /\ CandidatesOf(i) # <<>>) =>
            LET cands == CandidatesOf(i)
                n == Len(cands)
                total == SumProb(cands, n)
                First(d) == CHOOSE k \in 1..n :
                                /\ SumProb(cands, k) >= d
                                /\ \A m \in 1..(k - 1) : SumProb(cands, m) < d
            IN  total > 0 =>
                  /\ \A d \in Thresholds(cands) :
                        /\ d >= 0 /\ d < total
                        /\ \E k \in 1..n : SumProb(cands, k) >= d
                        /\ SelectedToken(cands, d) = cands[First(d)].tok
                  /\ \A k \in 1..n : \E d \in Thresholds(cands) :
                        SelectedToken(cands, d) = cands[k].tok

\* a traversal has chosen a token that is not its first candidate and is at
\* a step with several candidates, one of them an entry of the store
C18_Witness ==
    \E i \in DOMAIN trav :
        /\ trav[i].pc = "run"
        /\ Len(trav[i].tokens) > 0
        /\ CharCount(trav[i].tokens[1]) > 1
        /\ Len(CandidatesOf(i)) > 2
        /\ \E k \in DOMAIN CandidatesOf(i) : CandidatesOf(i)[k].tok \in DOMAIN store


\* the store {10.0, 8.0, 6.0, 4.0, 2.0} of the example
DecayExample ==
    (TokAB :> Fix(10)) @@ (TokBA :> Fix(8)) @@ (TokE :> Fix(6)) @@ (TokAE :> Fix(4))
        @@ (TokABA :> Fix(2))

\* C19: in the decaying implementation a selection keeps the entries whose
\* strength before it was >= the threshold, and leaves each of them at 0.8
\* times that strength (to the nearest unit), once; {10, 8, 6, 4, 2} becomes
\* {8, 6.4, 4.8}.
C19_DecayOnSurvival ==
    /\ (op.kind = "select" /\ Decays(variant) /\ DOMAIN op.store # {}) =>
          /\ DOMAIN store = {t \in DOMAIN op.store : op.store[t] >= op.threshold}
          /\ \A t \in DOMAIN store :
                5 * (op.store[t] - store[t]) - op.store[t] \in (0 - 2)..2
    /\ natural_selection(DecayExample, "colony")
          = (TokAB :> Fix(8)) @@ (TokBA :> (Fix(64) + 5) \div 10)
              @@ (TokE :> (Fix(48) + 5) \div 10)

\* a decaying selection has removed an entry and left a survivor below the
\* threshold it was compared with
C19_Witness ==
    /\ op.kind = "select"
    /\ Decays(variant)
    /\ DOMAIN store # DOMAIN op.store
    /\ \E t \in DOMAIN store : store[t] < op.threshold /\ op.store[t] > Fix(MAX_SCORE) \div 4


\* C20: the training run returns; it has then run `iterations` generations, and
\* in every generation each segment was traversed once, each path deposited
\* once and one selection was made, in this order.
C20_TrainingCompletes ==
    /\ [](/\ gen <= iterations
          /\ \A i \in Tasks :
                /\ hist.traversed[i] =
                      IF mpc = "traverse" /\ trav[i].pc # "done" THEN gen - 1 ELSE gen
                /\ hist.deposited[i] =
                      IF mpc = "traverse" \/ (mpc = "deposit" /\ dep[i].pc # "done")
                      THEN gen - 1 ELSE gen
          /\ hist.selected = IF mpc \in {"loop", "done"} THEN gen ELSE gen - 1
          /\ mpc = "done" => gen = iterations)
    /\ <>[](mpc = "done")

\* the run has returned after `iterations` selections on a corpus of two segments
C20_Witness ==
    /\ mpc = "done"
    /\ Len(lines) = 2
    /\ hist.selected = iterations
    /\ \A i \in Tasks : hist.traversed[i] = iterations /\ hist.deposited[i] = iterations


RECURSIVE DepositInOrder(_, _)
\* the store after the paths of the tasks q[1], q[2], ... were deposited one
\* after another, each without interruption
DepositInOrder(st, q) ==
    IF q = <<>> THEN st
    ELSE DepositInOrder(deposit(st, results[Head(q)].path, variant), Tail(q))

\* the orders in which the deposit tasks can be taken
TaskOrders == {q \in [Tasks -> Tasks] : \A a, b \in Tasks : a # b => q[a] # q[b]}

\* C21: when the parallel deposit phase is over, the store is the one that
\* depositing the same paths one after another gives to the store the phase
\* began on, in whatever order the paths are taken: no scheduling of the tasks
\* gives another store.
C21_DepositInterleavingIndependent ==
    mpc = "select" => \A q \in TaskOrders : store = DepositInOrder(hist.store0, q)

\* three tasks have deposited paths that reinforce "ab" and "ba" in opposite
\* orders on a store that held "ab"
C21_Witness ==
    /\ mpc = "select"
    /\ Len(results) = 3
    /\ results[1].path = <<TokAB, TokBA>>
    /\ results[2].path = <<TokBA, TokAB>>
    /\ results[3].path # <<>>
    /\ TokAB \in DOMAIN hist.store0
    /\ store # hist.store0


\* the shards whose write lock the deposit task i holds
HeldBy(i) == {s \in 1..NumShards : locks[s] = i}

\* C22: a deposit task holds the write lock of at most one entry, the one of
\* the token it is updating, and none between two tokens of its path; and
\* every deposit task returns.
C22_DepositDeadlockFree ==
    /\ [](\A i \in Tasks :
            /\ Cardinality(HeldBy(i)) <= 1
            /\ InUpdate(i) => HeldBy(i) = {Shard(DepToken(i))}
            /\ ~InUpdate(i) => HeldBy(i) = {})
    /\ \A i \in 1..3 : <>(mpc = "deposit" => dep[i].pc = "done")

\* three tasks have returned after meeting on the lock of one shard: each of
\* them has reinforced a token of the shard of "ab"
C22_Witness ==
    /\ mpc = "deposit"
    /\ Len(dep) = 3
    /\ \A i \in Tasks :
          /\ dep[i].pc = "done"
          /\ \E k \in 1..Len(results[i].path) :
                /\ Reinforced(results[i].path[k])
                /\ Shard(results[i].path[k]) = Shard(TokAB)
    /\ results[1].path = <<TokAB, TokBA>>
    /\ results[2].path = <<TokBA, TokAB>>


\* C23: a selection on N >= 1 entries leaves at least min(N, cut + 1) of them,
\* with cut = min(max(1, floor(N * r)), N - 1); every entry of the highest
\* strength is left, and a store of one or two entries loses none.
C23_SelectionNeverEmpties ==
    (op.kind = "select" /\ DOMAIN op.store # {}) =>
        LET n == Cardinality(DOMAIN op.store)
        IN  /\ Cardinality(DOMAIN store) >= Min(n, ClaimedCut(n, variant) + 1)
            /\ DOMAIN store # {}
            /\ \A t \in DOMAIN op.store :
                  (\A u \in DOMAIN op.store : op.store[t] >= op.store[u]) => t \in DOMAIN store
            /\ n <= 2 => DOMAIN store = DOMAIN op.store

\* a selection has left exactly cut + 1 of four or more entries of different
\* strengths
C23_Witness ==
    /\ op.kind = "select"
    /\ Cardinality(DOMAIN op.store) >= 4
    /\ Cardinality(DOMAIN store) = ClaimedCut(Cardinality(DOMAIN op.store), variant) + 1
    /\ \A t, u \in DOMAIN op.store : t # u => op.store[t] # op.store[u]

====
